---- MODULE Spec2Model ----
(***************************************************************************)
(* A model of unity_input_patcher.py: the tolerant comparator, the toggle  *)
(* direction resolver, the field mutator and the patch run (main/run).     *)
(*                                                                         *)
(* JSON / typetree values are records [k, n, s]:                           *)
(*   k = "num"  a finite number, n its value in units of 1e-7              *)
(*   k = "inf"  the non-finite number Infinity                             *)
(*   k = "bool" a boolean, n = 1 for True and 0 for False                  *)
(*   k = "str"  a string, s its characters (a token is a TLA+ string that  *)
(*              stands for a run of non-blank characters, " " is a blank)  *)
(*   k = "none" JSON null / Python None                                    *)
(* A dict is a function from key strings (character sequences) to values.  *)
(***************************************************************************)
EXTENDS Integers, Sequences, FiniteSets, TLC

VARIABLES
    dArgs, dRet,        \* toggle_decision: its arguments and its result
    tAxes, tArgs, tRet, \* toggle_legacy_axis_field: collection, arguments, result
    patch,              \* the parsed patch description (a dict)
    fs,                 \* the file system: markers, patch file, target file
    pc,                 \* position of the process in main()/run()
    game_root,          \* run's game_root
    axes,               \* run's in-memory m_Axes list
    i,                  \* index of the next toggle entry of the loop
    mode_seen,          \* run's mode_seen
    code,               \* main()'s return value (-1 while running)
    err,                \* the error raised in this run ("" if none)
    status,             \* the final status line run() printed ("" if none)
    hist                \* bookkeeping across runs (not program state)

vars == <<dArgs, dRet, tAxes, tArgs, tRet, patch, fs, pc, game_root, axes, i,
          mode_seen, code, err, status, hist>>

----------------------------------------------------------------------------
(* Values *)

\* FLOAT_EPS = 1e-6, in units of 1e-7
FLOAT_EPS == 10

\* the number 1.0 in the same units
One == FLOAT_EPS * 1000000

Num(x) == [k |-> "num", n |-> x, s |-> <<>>]
Inf == [k |-> "inf", n |-> 0, s |-> <<>>]
Bool(b) == [k |-> "bool", n |-> IF b THEN 1 ELSE 0, s |-> <<>>]
Str(cs) == [k |-> "str", n |-> 0, s |-> cs]
None == [k |-> "none", n |-> 0, s |-> <<>>]

Abs(x) == IF x < 0 THEN -x ELSE x

\* isinstance(a, (int, float)) and not isinstance(a, bool)
IsNumber(a) == a.k \in {"num", "inf"}

\* math.isfinite(float(a)) of a number
IsFinite(a) == a.k = "num"

\* the numeric value Python compares a bool or a finite number by
NumericValue(a) == IF a.k = "bool" THEN a.n * One ELSE a.n

\* Python's a == b on JSON values: numbers and booleans compare by value
\* (True == 1.0), everything else by type and content
PyEq(a, b) ==
    IF a.k \in {"num", "bool"} /\ b.k \in {"num", "bool"}
    THEN NumericValue(a) = NumericValue(b)
    ELSE a = b

\* Python truthiness of a JSON value
Truthy(a) ==
    CASE a.k = "none" -> FALSE
      [] a.k = "str" -> Len(a.s) > 0
      [] a.k = "inf" -> TRUE
      [] OTHER -> a.n # 0

\* bool(s.strip()) of a string: some character is not a blank
StripTruthy(a) == \E j \in 1..Len(a.s) : a.s[j] # " "

\* equal(a, b)
Equal(a, b) ==
    IF IsNumber(a) /\ IsNumber(b)
    THEN IsFinite(a) /\ IsFinite(b) /\ Abs(a.n - b.n) <= FLOAT_EPS
    ELSE PyEq(a, b)

ToggleDecisionRevertKeepsPatched(current, original, patched) ==
    IF Equal(current, original) THEN [new |-> patched, mode |-> "applied"]
    ELSE IF Equal(current, patched) THEN [new |-> patched, mode |-> "reverted"]
    ELSE [new |-> None, mode |-> "unknown"]

ToggleDecisionPatchedFirst(current, original, patched) ==
    IF Equal(current, patched) THEN [new |-> original, mode |-> "reverted"]
    ELSE IF Equal(current, original) THEN [new |-> patched, mode |-> "applied"]
    ELSE [new |-> None, mode |-> "unknown"]

\* toggle_decision(current, original, patched)
ToggleDecision(current, original, patched) ==
    IF Equal(current, original) THEN [new |-> patched, mode |-> "applied"]
    ELSE IF Equal(current, patched) THEN [new |-> original, mode |-> "reverted"]
    ELSE [new |-> None, mode |-> "unknown"]

----------------------------------------------------------------------------
(* Dicts and the field mutator *)

mName == <<"m_Name">>
sensitivity == <<"sensitivity">>
gravity == <<"gravity">>

\* d.get(key, default)
Get(d, key, default) == IF key \in DOMAIN d THEN d[key] ELSE default

\* the dict d with d[key] = v
Put(d, key, v) == [x \in DOMAIN d \cup {key} |-> IF x = key THEN v ELSE d[x]]

NameMismatchNever(name, axis_name) == FALSE

\* toggle_legacy_axis_field lines 134-135: a given name differs from the live one
NameMismatch(name, axis_name) == Truthy(axis_name) /\ ~PyEq(name, axis_name)

Raise(exc, ax) == [exc |-> exc, mode |-> "", axes |-> ax, named |-> FALSE]

\* toggle_legacy_axis_field from `ax = axes[axis_index]` on (lines 131-151)
ToggleAt(ax, axis_index, field, original, patched, axis_name) ==
    LET el == ax[axis_index + 1]
        name == Get(el, mName, Str(<<>>))
    IN  IF NameMismatch(name, axis_name)
        THEN Raise("NameMismatch", ax)
        ELSE IF field \notin DOMAIN el
        THEN Raise("FieldMissing", ax)
        ELSE
        LET r == ToggleDecision(el[field], original, patched)
        IN  IF r.new = None
            THEN Raise("UnknownState", ax)
            ELSE [exc |-> "", mode |-> r.mode,
                  axes |-> [ax EXCEPT ![axis_index + 1] = Put(el, field, r.new)],
                  named |-> Truthy(axis_name)]

ToggleWrapNegative(ax, axis_index, field, original, patched, axis_name) ==
    IF axis_index >= Len(ax) \/ axis_index < -Len(ax)
    THEN Raise("IndexError", ax)
    ELSE ToggleAt(ax, IF axis_index < 0 THEN axis_index + Len(ax) ELSE axis_index,
                  field, original, patched, axis_name)

\* toggle_legacy_axis_field(axes, axis_index, field, original, patched, axis_name):
\* exc is "" on return, else the error raised; axes is the collection afterwards
ToggleLegacyAxisField(ax, axis_index, field, original, patched, axis_name) ==
    IF axis_index < 0 \/ axis_index >= Len(ax)
    THEN Raise("IndexError", ax)
    ELSE ToggleAt(ax, axis_index, field, original, patched, axis_name)

----------------------------------------------------------------------------
(* Bounds and input domains *)

\* longest axes collection
MaxAxes == 2

\* sequences over S of length 0..n
RECURSIVE SeqsUpTo(_, _)
SeqsUpTo(S, n) ==
    IF n = 0 THEN {<<>>}
    ELSE LET shorter == SeqsUpTo(S, n - 1)
         IN  shorter \cup {Append(q, x) : q \in {r \in shorter : Len(r) = n - 1}, x \in S}

\* values toggle_decision is applied to
DVals == {Num(0), Num(6), Num(12), Num(One), Inf, Bool(TRUE), Bool(FALSE),
          Str(<<"a">>), Str(<<>>), None}

\* live field values, and original/patched values, of the mutator's calls
TLive == {Num(0), Num(6), Num(12), Inf}
TVals == {Num(0), Num(6), Num(12), Inf, None}
TNames == {None, Str(<<>>), Str(<<"H">>)}
TElems == {(sensitivity :> v) : v \in TLive}
            \cup {(mName :> Str(<<"H">>)) @@ (sensitivity :> v) : v \in TLive}

----------------------------------------------------------------------------
(* Idle values of the variables a specification does not use *)

NoDecision == [new |-> None, mode |-> "pending"]
NoDArgs == [current |-> None, original |-> None, patched |-> None]
NoTArgs == [axes |-> <<>>, axis_index |-> 0, field |-> <<>>, original |-> None,
            patched |-> None, axis_name |-> None]
NoTRet == [exc |-> "pending", mode |-> "", axes |-> <<>>, named |-> FALSE]
NoPatch == <<>>
NoFs == <<>>
NoHist == <<>>

functionVars == <<dArgs, dRet, tAxes, tArgs, tRet>>
runVars == <<patch, fs, pc, game_root, axes, i, mode_seen, code, err, status, hist>>

RunIdle ==
    /\ patch = NoPatch /\ fs = NoFs /\ pc = "idle" /\ game_root = "" /\ axes = <<>>
    /\ i = 0 /\ mode_seen = "" /\ code = -1 /\ err = "" /\ status = ""
    /\ hist = NoHist

FunctionsIdle ==
    /\ dArgs = NoDArgs /\ dRet = NoDecision
    /\ tAxes = <<>> /\ tArgs = NoTArgs /\ tRet = NoTRet

----------------------------------------------------------------------------
(* toggle_decision applied to every triple of values *)

InitDecision ==
    /\ dArgs \in [current : DVals, original : DVals, patched : DVals]
    /\ dRet = NoDecision
    /\ tAxes = <<>> /\ tArgs = NoTArgs /\ tRet = NoTRet
    /\ RunIdle

DecisionCall ==
    /\ dRet.mode = "pending"
    /\ dRet' = ToggleDecision(dArgs.current, dArgs.original, dArgs.patched)
    /\ UNCHANGED <<dArgs, tAxes, tArgs, tRet, runVars>>

SpecDecision == InitDecision /\ [][DecisionCall]_vars

----------------------------------------------------------------------------
(* toggle_legacy_axis_field applied to every collection and argument list *)

InitToggle ==
    /\ tAxes \in SeqsUpTo(TElems, MaxAxes)
    /\ \E ix \in (0 - MaxAxes - 1)..(MaxAxes + 1), f \in {sensitivity, gravity},
          o \in TVals, p \in TVals, nm \in TNames :
          tArgs = [axes |-> tAxes, axis_index |-> ix, field |-> f, original |-> o,
                   patched |-> p, axis_name |-> nm]
    /\ tRet = NoTRet
    /\ dArgs = NoDArgs /\ dRet = NoDecision
    /\ RunIdle

\* the call; the list is mutated in place, tArgs.axes keeps what was passed
ToggleCall ==
    /\ tRet.exc = "pending"
    /\ tRet' = ToggleLegacyAxisField(tAxes, tArgs.axis_index, tArgs.field,
                                     tArgs.original, tArgs.patched, tArgs.axis_name)
    /\ tAxes' = tRet'.axes
    /\ UNCHANGED <<dArgs, dRet, tArgs, runVars>>

SpecToggle == InitToggle /\ [][ToggleCall]_vars

----------------------------------------------------------------------------
(* Claims about toggle_decision *)

dDone == dRet.mode # "pending"

\* C4 as stated: toggle_decision(original, original, patched) = (patched, "applied"),
\* toggle_decision(patched, original, patched) = (original, "reverted"), and
\* (None, "unknown") for every current value that tolerantly equals neither.
C4_AsStated ==
    dDone =>
        /\ dArgs.current = dArgs.original
             => dRet = [new |-> dArgs.patched, mode |-> "applied"]
        /\ dArgs.current = dArgs.patched
             => dRet = [new |-> dArgs.original, mode |-> "reverted"]
        /\ (~Equal(dArgs.current, dArgs.original) /\ ~Equal(dArgs.current, dArgs.patched))
             => dRet = [new |-> None, mode |-> "unknown"]

\* C4 amended: the first equation holds when original is not a non-finite number,
\* the second when patched is not a non-finite number and does not tolerantly
\* equal original; the third holds as stated.
C4_Decision ==
    dDone =>
        /\ (dArgs.current = dArgs.original /\ dArgs.original.k # "inf")
             => dRet = [new |-> dArgs.patched, mode |-> "applied"]
        /\ (dArgs.current = dArgs.patched /\ dArgs.patched.k # "inf"
              /\ ~Equal(dArgs.patched, dArgs.original))
             => dRet = [new |-> dArgs.original, mode |-> "reverted"]
        /\ (~Equal(dArgs.current, dArgs.original) /\ ~Equal(dArgs.current, dArgs.patched))
             => dRet = [new |-> None, mode |-> "unknown"]

\* C4 witness: a revert decided for a current value equal to patched
C4_Witness ==
    /\ dDone /\ dArgs.current = dArgs.patched /\ dArgs.patched = Num(12)
    /\ dArgs.original = Num(0) /\ dRet = [new |-> Num(0), mode |-> "reverted"]

----------------------------------------------------------------------------
(* Claims about toggle_legacy_axis_field *)

tDone == tRet.exc # "pending"

tOutOfRange == tArgs.axis_index < 0 \/ tArgs.axis_index >= Len(tArgs.axes)

\* C6: an index that is negative or >= len(collection) raises the out-of-range
\* error and leaves every element of the collection as it was.
C6_IndexBound ==
    (tDone /\ tOutOfRange) => (tRet.exc = "IndexError" /\ tAxes = tArgs.axes)

\* C6 witness: a negative index that would wrap to an element whose field would
\* toggle was rejected
C6_Witness ==
    /\ tDone /\ tArgs.axis_index = -1 /\ Len(tArgs.axes) = 2
    /\ tArgs.field = sensitivity /\ tArgs.axes[2][sensitivity] = tArgs.original
    /\ tArgs.original = Num(0) /\ tArgs.patched = Num(12)
    /\ tRet.exc = "IndexError"

\* the call got past the index, name and field checks
tReachesDecision ==
    /\ ~tOutOfRange
    /\ LET el == tArgs.axes[tArgs.axis_index + 1]
       IN  /\ ~(Truthy(tArgs.axis_name) /\ ~PyEq(Get(el, mName, Str(<<>>)), tArgs.axis_name))
           /\ tArgs.field \in DOMAIN el

tLive == tArgs.axes[tArgs.axis_index + 1][tArgs.field]

tWrote(v) ==
    tAxes = [tArgs.axes EXCEPT ![tArgs.axis_index + 1] =
                Put(tArgs.axes[tArgs.axis_index + 1], tArgs.field, v)]

\* C9: past the index, name and field checks, the call raises "Unknown state"
\* exactly when the live value tolerantly equals neither original nor patched;
\* when it equals original the call writes patched and returns "applied", when it
\* equals patched (and not original) it writes original and returns "reverted".
C9_Reconciliation ==
    (tDone /\ tReachesDecision) =>
        /\ (tRet.exc = "UnknownState")
             <=> (~Equal(tLive, tArgs.original) /\ ~Equal(tLive, tArgs.patched))
        /\ Equal(tLive, tArgs.original)
             => (tRet.exc = "" /\ tRet.mode = "applied" /\ tWrote(tArgs.patched))
        /\ (Equal(tLive, tArgs.patched) /\ ~Equal(tLive, tArgs.original))
             => (tRet.exc = "" /\ tRet.mode = "reverted" /\ tWrote(tArgs.original))

----------------------------------------------------------------------------
(* The patch run: main() and run() *)

kType == <<"type">>
kAxis == <<"axis">>
kField == <<"field">>
kOriginal == <<"original">>
kPatched == <<"patched">>
kAxisName == <<"axis_name">>
legacyAxisField == Str(<<"legacy_axis_field">>)

\* Path.parent over the directories of the model; "/" is its own parent
Dirs == {"/", "/g", "/g/sub"}
Parent(d) == CASE d = "/g/sub" -> "/g" [] d = "/g" -> "/" [] OTHER -> "/"

\* the strict ancestors of a directory
Ancestors(d) == CASE d = "/g/sub" -> {"/g", "/"} [] d = "/g" -> {"/"} [] OTHER -> {}

\* verify_root_contains(root, items) does not raise: nothing is missing
VerifyRootContains(f, root, items) ==
    \A j \in 1..Len(items) : <<root, items[j]>> \in f.markers

ResolveRootKeepsChild(f, root, rc) ==
    IF rc.isList /\ Len(rc.items) > 0
    THEN IF VerifyRootContains(f, root, rc.items)
         THEN [ok |-> TRUE, root |-> root]
         ELSE IF Parent(root) # root
              THEN [ok |-> VerifyRootContains(f, Parent(root), rc.items), root |-> root]
              ELSE [ok |-> FALSE, root |-> root]
    ELSE [ok |-> TRUE, root |-> root]

\* run() lines 172-184: the root check and its fallback to the parent
ResolveRoot(f, root, rc) ==
    IF rc.isList /\ Len(rc.items) > 0
    THEN IF VerifyRootContains(f, root, rc.items)
         THEN [ok |-> TRUE, root |-> root]
         ELSE IF Parent(root) # root
              THEN [ok |-> VerifyRootContains(f, Parent(root), rc.items),
                    root |-> Parent(root)]
              ELSE [ok |-> FALSE, root |-> root]
    ELSE [ok |-> TRUE, root |-> root]

\* int(x) succeeds
CanInt(v) == v.k \in {"num", "bool"}

\* int(x): a number is truncated towards zero
IntOf(v) ==
    IF v.k = "bool" THEN v.n
    ELSE IF v.n < 0 THEN 0 - ((0 - v.n) \div One) ELSE v.n \div One

\* str(x): a string is itself; another value's text is no key of an axis element
PyStr(v) == IF v.k = "str" THEN v.s ELSE <<v.k>>

\* run() line 231: axis_name is kept only if it is a string that is not blank
AxisNameOf(t) ==
    LET a == Get(t.kv, kAxisName, None)
    IN  IF a.k = "str" /\ StripTruthy(a) THEN a ELSE None

\* run() lines 217-229: the error an entry's shape raises, "" if none
EntryShapeError(t) ==
    IF ~t.isDict THEN "BadEntry"
    ELSE IF ~PyEq(Get(t.kv, kType, None), legacyAxisField) THEN "UnsupportedType"
    ELSE IF kAxis \notin DOMAIN t.kv \/ ~CanInt(t.kv[kAxis]) THEN "NonIntegerAxis"
    ELSE IF kField \notin DOMAIN t.kv THEN "MissingKey"
    ELSE IF kOriginal \notin DOMAIN t.kv THEN "MissingKey"
    ELSE IF kPatched \notin DOMAIN t.kv THEN "MissingKey"
    ELSE ""

\* run() lines 233-240: the call of toggle_legacy_axis_field for a well-shaped entry
ToggleEntry(ax, t) ==
    ToggleLegacyAxisField(ax, IntOf(t.kv[kAxis]), PyStr(t.kv[kField]),
                          t.kv[kOriginal], t.kv[kPatched], AxisNameOf(t))

ModeConflictNever(seen, mode) == FALSE

ModeConflictOneWay(seen, mode) == seen = "applied" /\ mode # seen

\* run() lines 242-245: an entry's direction differs from the first entry's
ModeConflict(seen, mode) == seen # "" /\ seen # mode

\* run() lines 216-248, one iteration: the error raised ("" if none), the list
\* and mode_seen afterwards, and the direction the entry returned ("" if none)
LoopIter(ax, seen, t) ==
    LET shape == EntryShapeError(t)
    IN  IF shape # ""
        THEN [err |-> shape, axes |-> ax, seen |-> seen, mode |-> ""]
        ELSE
        LET r == ToggleEntry(ax, t)
        IN  IF r.exc # ""
            THEN [err |-> r.exc, axes |-> ax, seen |-> seen, mode |-> ""]
            ELSE IF ModeConflict(seen, r.mode)
            THEN [err |-> "Mixed", axes |-> r.axes, seen |-> seen, mode |-> r.mode]
            ELSE [err |-> "", axes |-> r.axes,
                  seen |-> IF seen = "" THEN r.mode ELSE seen, mode |-> r.mode]

\* run() lines 212-248: the whole loop over a toggle list, from entry j on
RECURSIVE RunLoopFrom(_, _, _, _)
RunLoopFrom(ax, seen, items, j) ==
    IF j > Len(items)
    THEN [err |-> "", axes |-> ax, seen |-> seen]
    ELSE LET r == LoopIter(ax, seen, items[j])
         IN  IF r.err # ""
             THEN [err |-> r.err, axes |-> r.axes, seen |-> r.seen]
             ELSE RunLoopFrom(r.axes, r.seen, items, j + 1)

RunLoop(ax, items) == RunLoopFrom(ax, "", items, 1)

AfterToggleSaved(f, ax) == [f EXCEPT !.disk.axes = ax]

\* the file system after an iteration of the loop: the loop writes no file
AfterToggle(f, ax) == f

ExitCodeNoPermissionClause(e) == 1

\* main() lines 283-292: the exit code of an exception
ExitCodeOf(e) == IF e = "PermissionError" THEN 3 ELSE 1

\* the exception propagates out of run() and main() returns fail(...)
Fail(e) ==
    /\ err' = e
    /\ code' = ExitCodeOf(e)
    /\ pc' = "exit"

\* main() lines 266-281 up to the call of run()
MainStart ==
    /\ pc = "main"
    /\ IF fs.patchFile = "missing"
       THEN /\ code' = 2 /\ err' = "PatchNotFound" /\ pc' = "exit"
       ELSE /\ pc' = "load_patch" /\ UNCHANGED <<code, err>>
    /\ UNCHANGED <<functionVars, patch, fs, game_root, axes, i, mode_seen, status, hist>>

\* run() line 168: load_json
LoadPatch ==
    /\ pc = "load_patch"
    /\ CASE fs.patchFile = "unreadable" -> Fail("PermissionError")
         [] fs.patchFile = "malformed" -> Fail("JSONDecodeError")
         [] OTHER -> /\ pc' = "root" /\ UNCHANGED <<code, err>>
    /\ hist' = [hist EXCEPT !.ran = TRUE]
    /\ UNCHANGED <<functionVars, patch, fs, game_root, axes, i, mode_seen, status>>

\* run() lines 172-184
RootCheck ==
    /\ pc = "root"
    /\ LET r == ResolveRoot(fs, game_root, patch.root_contains)
       IN  IF r.ok
           THEN /\ game_root' = r.root /\ pc' = "file" /\ UNCHANGED <<code, err>>
           ELSE /\ Fail("RootSanity") /\ UNCHANGED game_root
    /\ UNCHANGED <<functionVars, patch, fs, axes, i, mode_seen, status, hist>>

\* run() lines 186-194: the target file and the toggle list
ResolveTarget ==
    /\ pc = "file"
    /\ IF ~(patch.file.k = "str" /\ StripTruthy(patch.file))
       THEN Fail("MissingFile")
       ELSE IF fs.targetDir # game_root
       THEN Fail("FileNotFoundError")
       ELSE IF ~(patch.toggle.isList /\ Len(patch.toggle.items) > 0)
       THEN Fail("MissingToggle")
       ELSE /\ pc' = "open" /\ UNCHANGED <<code, err>>
    /\ UNCHANGED <<functionVars, patch, fs, game_root, axes, i, mode_seen, status, hist>>

\* run() lines 204-214: load the file, find the record, read its tree
OpenTarget ==
    /\ pc = "open"
    /\ hist' = [hist EXCEPT !.opened = TRUE]
    /\ IF ~fs.disk.hasIM THEN Fail("InputManagerNotFound") /\ UNCHANGED axes
       ELSE IF ~fs.lib.read THEN Fail("CannotReadTree") /\ UNCHANGED axes
       ELSE IF ~fs.disk.axesIsList THEN Fail("AxesFormat") /\ UNCHANGED axes
       ELSE /\ axes' = fs.disk.axes /\ pc' = "loop" /\ UNCHANGED <<code, err>>
    /\ UNCHANGED <<functionVars, patch, fs, game_root, i, mode_seen, status>>

\* run() lines 216-248: one iteration of the loop over the toggle entries
LoopStep ==
    /\ pc = "loop"
    /\ i < Len(patch.toggle.items)
    /\ LET r == LoopIter(axes, mode_seen, patch.toggle.items[i + 1])
       IN  /\ axes' = r.axes
           /\ mode_seen' = r.seen
           /\ fs' = AfterToggle(fs, r.axes)
           /\ hist' = [hist EXCEPT !.modes =
                          IF r.mode = "" THEN @ ELSE Append(@, r.mode)]
           /\ IF r.err # ""
              THEN Fail(r.err) /\ UNCHANGED i
              ELSE /\ i' = i + 1 /\ UNCHANGED <<pc, code, err>>
    /\ UNCHANGED <<functionVars, patch, game_root, status>>

\* run() lines 250-252: write_tree, then save_in_place
Commit ==
    /\ pc = "loop"
    /\ i = Len(patch.toggle.items)
    /\ IF ~fs.lib.write THEN Fail("CannotWriteTree") /\ UNCHANGED <<fs, hist>>
       ELSE IF ~fs.lib.save THEN Fail("CannotSerialize") /\ UNCHANGED <<fs, hist>>
       ELSE IF fs.locked THEN Fail("PermissionError") /\ UNCHANGED <<fs, hist>>
       ELSE /\ fs' = [fs EXCEPT !.disk.axes = axes]
            /\ hist' = [hist EXCEPT !.wrote = TRUE]
            /\ pc' = "report" /\ UNCHANGED <<code, err>>
    /\ UNCHANGED <<functionVars, patch, game_root, axes, i, mode_seen, status>>

\* run() lines 254-262 and main() line 281
Report ==
    /\ pc = "report"
    /\ status' = IF mode_seen = "applied" THEN "applied" ELSE "reverted"
    /\ code' = 0
    /\ pc' = "exit"
    /\ UNCHANGED <<functionVars, patch, fs, game_root, axes, i, mode_seen, err, hist>>

----------------------------------------------------------------------------
(* The inputs of the patch run *)

\* most toggle entries in a patch
MaxToggles == 2

\* an axis element as the typetree holds it
Elem(name, v) == (mName :> Str(<<name>>)) @@ (sensitivity :> v)

\* live values of the sensitivity field and original values of a patch, and the
\* patched values of a patch: 6 is within FLOAT_EPS of 0 and of 12
RunVals == {Num(0), Num(6), Num(12)}
PatchedVals == {Num(0), Num(12)}

\* m_Axes of the target file: the axes "H" and "V"
RunAxes == {<<Elem("H", a), Elem("V", Num(0))>> : a \in RunVals}

\* a toggle entry that is a dict with every required key
Entry(axis, field, o, p) ==
    [isDict |-> TRUE,
     kv |-> (kType :> legacyAxisField) @@ (kAxis :> axis) @@ (kField :> Str(field))
              @@ (kOriginal :> o) @@ (kPatched :> p)]

Named(t, a) == [t EXCEPT !.kv = (kAxisName :> a) @@ t.kv]
Without(t, key) == [t EXCEPT !.kv = [x \in DOMAIN t.kv \ {key} |-> t.kv[x]]]
With(t, key, v) == [t EXCEPT !.kv = Put(t.kv, key, v)]

BaseEntry == Entry(Num(0), sensitivity, Num(0), Num(12))

\* well-formed entries on the two axes
CoreEntries ==
    {Entry(Num(a * One), sensitivity, o, p) : a \in {0, 1}, o \in RunVals, p \in PatchedVals}

\* entries that exercise one check each
SpecialEntries ==
    { [isDict |-> FALSE, kv |-> <<>>],
      With(BaseEntry, kType, Str(<<"other">>)),
      Without(BaseEntry, kAxis),
      With(BaseEntry, kAxis, Str(<<"H">>)),
      Without(BaseEntry, kField),
      Without(BaseEntry, kOriginal),
      Without(BaseEntry, kPatched),
      With(BaseEntry, kAxis, Num(0 - One)),
      With(BaseEntry, kAxis, Num(2 * One)),
      With(BaseEntry, kAxis, Num(0 - (One \div 2))),
      With(BaseEntry, kField, Str(gravity)),
      Named(BaseEntry, Str(<<"H">>)),
      Named(With(BaseEntry, kAxis, Num(One)), Str(<<"H">>)),
      Named(With(BaseEntry, kAxis, Num(One)), Str(<<" ">>)),
      Named(With(BaseEntry, kAxis, Num(One)), Num(5 * One)),
      With(BaseEntry, kPatched, Inf),
      With(BaseEntry, kPatched, None) }

Entries == CoreEntries \cup SpecialEntries

List(items) == [isList |-> TRUE, items |-> items]
NotAList == [isList |-> FALSE, items |-> <<>>]

targetRel == Str(<<"globalgamemanagers">>)
Markers == {"Foo.exe", "Data"}

NominalDisk == [hasIM |-> TRUE, axesIsList |-> TRUE,
                axes |-> <<Elem("H", Num(0)), Elem("V", Num(0))>>]
NominalLib == [read |-> TRUE, write |-> TRUE, save |-> TRUE]
NominalFs ==
    [argRoot |-> "/g", markers |-> {<<"/g", "Foo.exe">>}, patchFile |-> "ok",
     targetDir |-> "/g", disk |-> NominalDisk, lib |-> NominalLib, locked |-> FALSE]
NominalPatch ==
    [root_contains |-> List(<<"Foo.exe">>), file |-> targetRel,
     toggle |-> List(<<Named(BaseEntry, Str(<<"H">>))>>)]

\* every toggle list over every target file, in a nominal installation
TogglesInputs ==
    {[p |-> [NominalPatch EXCEPT !.toggle = List(ts)],
      f |-> [NominalFs EXCEPT !.disk.axes = ax]] :
        ts \in SeqsUpTo(Entries, MaxToggles) \ {<<>>}, ax \in RunAxes}

\* every installation layout, for the nominal patch over a few marker lists
RootInputs ==
    {[p |-> [NominalPatch EXCEPT !.root_contains = rc],
      f |-> [NominalFs EXCEPT !.argRoot = r, !.markers = m, !.targetDir = t]] :
        rc \in {List(<<>>), NotAList, List(<<"Foo.exe">>), List(<<"Foo.exe", "Data">>)},
        r \in Dirs, m \in SUBSET (Dirs \X Markers), t \in Dirs \cup {"none"}}

\* every state of the patch file, the library and the target file's record
FileInputs ==
    {[p |-> [NominalPatch EXCEPT !.file = rel, !.toggle = tg],
      f |-> [NominalFs EXCEPT !.patchFile = pf, !.locked = lk, !.lib = lb,
                              !.disk.hasIM = d[1], !.disk.axesIsList = d[2]]] :
        rel \in {targetRel, Str(<<" ">>), None},
        tg \in {NominalPatch.toggle, NotAList, List(<<>>)},
        pf \in {"ok", "missing", "unreadable", "malformed"},
        lk \in BOOLEAN,
        lb \in [read : BOOLEAN, write : BOOLEAN, save : BOOLEAN],
        d \in {<<TRUE, TRUE>>, <<FALSE, TRUE>>, <<TRUE, FALSE>>}}

----------------------------------------------------------------------------
(* Consecutive runs of the tool with the same arguments on the same files *)

\* runs of the tool in a row
MaxRuns == 2

FreshHist(f, n, before) ==
    [run |-> n, disk0 |-> f.disk, ran |-> FALSE, opened |-> FALSE, wrote |-> FALSE,
     modes |-> <<>>, prev |-> before]

RunAgain ==
    /\ pc = "exit"
    /\ hist.run < MaxRuns
    /\ hist' = FreshHist(fs, hist.run + 1,
                         Append(hist.prev, [code |-> code, status |-> status,
                                            disk0 |-> hist.disk0, disk1 |-> fs.disk]))
    /\ pc' = "main" /\ game_root' = fs.argRoot /\ axes' = <<>> /\ i' = 0
    /\ mode_seen' = "" /\ code' = -1 /\ err' = "" /\ status' = ""
    /\ UNCHANGED <<functionVars, patch, fs>>

Init ==
    /\ \E in \in TogglesInputs \cup RootInputs \cup FileInputs :
          /\ patch = in.p
          /\ fs = in.f
          /\ game_root = in.f.argRoot
          /\ hist = FreshHist(in.f, 1, <<>>)
    /\ pc = "main" /\ axes = <<>> /\ i = 0 /\ mode_seen = ""
    /\ code = -1 /\ err = "" /\ status = ""
    /\ FunctionsIdle

Next ==
    \/ MainStart
    \/ LoadPatch
    \/ RootCheck
    \/ ResolveTarget
    \/ OpenTarget
    \/ LoopStep
    \/ Commit
    \/ Report
    \/ RunAgain

----------------------------------------------------------------------------
(* Claims about the patch run *)

items == patch.toggle.items
failed == pc = "exit" /\ code # 0

\* the element field a well-shaped entry addresses
Target(t) == <<IntOf(t.kv[kAxis]), PyStr(t.kv[kField])>>
FieldOf(ax, t) == ax[Target(t)[1] + 1][Target(t)[2]]

\* the well-shaped entries of the patch address pairwise distinct fields
DistinctTargets ==
    \A j, k \in 1..Len(items) :
        (j < k /\ EntryShapeError(items[j]) = "" /\ EntryShapeError(items[k]) = "")
            => Target(items[j]) # Target(items[k])

\* C1: whenever a run fails, the target file on disk is what it was before the
\* run, whatever the loop did to the in-memory collection.
C1_DiskUntouchedOnFailure == failed => (fs.disk = hist.disk0 /\ ~hist.wrote)

\* C1 witness: a run that failed on the mixed-direction check after the first
\* entry had already changed the in-memory collection
C1_Witness ==
    /\ failed /\ err = "Mixed" /\ axes # fs.disk.axes /\ fs.disk = hist.disk0

\* C2: mode_seen is the direction the first entry returned; the file is written
\* and the run succeeds only if every entry returned that direction; an entry
\* returning another direction fails the run with the mixed apply/revert error
\* and nothing written; the status a successful run reports is that direction.
C2_SingleDirection ==
    /\ hist.modes # <<>> => mode_seen = hist.modes[1]
    /\ (hist.wrote \/ code = 0) =>
          /\ Len(hist.modes) = Len(items)
          /\ \A j \in 1..Len(hist.modes) : hist.modes[j] = hist.modes[1]
    /\ (\E j \in 1..Len(hist.modes) : hist.modes[j] # hist.modes[1]) =>
          /\ pc = "exit" /\ err = "Mixed" /\ code = 1
          /\ ~hist.wrote /\ fs.disk = hist.disk0
    /\ code = 0 => (status = hist.modes[1] /\ status \in {"applied", "reverted"})

\* C2 witness: a two-entry run stopped by the mixed-direction check
C2_Witness ==
    /\ pc = "exit" /\ err = "Mixed" /\ hist.modes = <<"applied", "reverted">>

prevRun == hist.prev[Len(hist.prev)]
afterApplied == pc = "exit" /\ hist.prev # <<>> /\ prevRun.code = 0 /\ prevRun.status = "applied"

\* what C3 says of a second run
RoundTrip ==
    /\ \A j \in 1..Len(items) :
          FieldOf(prevRun.disk1.axes, items[j]) = items[j].kv[kPatched]
    /\ code = 0 /\ status = "reverted"
    /\ \A j \in 1..Len(items) :
          /\ FieldOf(fs.disk.axes, items[j]) = items[j].kv[kOriginal]
          /\ Equal(FieldOf(fs.disk.axes, items[j]), FieldOf(prevRun.disk0.axes, items[j]))

atEntry ==
    /\ pc = "loop" /\ i < Len(items)
    /\ EntryShapeError(items[i + 1]) = ""
    /\ Target(items[i + 1])[1] >= 0 /\ Target(items[i + 1])[1] < Len(axes)

liveName == Get(axes[Target(items[i + 1])[1] + 1], mName, Str(<<>>))

rejectedByName == err' = "NameMismatch" /\ pc' = "exit" /\ code' = 1 /\ axes' = axes /\ fs' = fs

\* C5 as stated: an entry whose axis_name is present and not exactly the live
\* element's m_Name fails the run with the name-mismatch error, nothing modified.
C5_AsStated ==
    [][(/\ atEntry
        /\ kAxisName \in DOMAIN items[i + 1].kv
        /\ items[i + 1].kv[kAxisName] # liveName) => rejectedByName]_vars

\* C5 amended: the same, for an axis_name that is a string with a non-blank
\* character; any other axis_name is treated as absent.
C5_NameCorroboration ==
    [][(/\ atEntry
        /\ kAxisName \in DOMAIN items[i + 1].kv
        /\ items[i + 1].kv[kAxisName].k = "str"
        /\ StripTruthy(items[i + 1].kv[kAxisName])
        /\ items[i + 1].kv[kAxisName] # liveName) => rejectedByName]_vars

\* C5 witness: the second entry was rejected by its name after the first entry
\* had been toggled in memory; its field still holds its original value
C5_Witness ==
    /\ pc = "exit" /\ err = "NameMismatch" /\ i = 1 /\ Len(items) = 2
    /\ FieldOf(axes, items[2]) = items[2].kv[kOriginal]

\* C7: main() returns 0 exactly when run() completed; 2 exactly when the patch
\* file does not exist, and then run() was not called and the target file not
\* opened; 3 exactly when a PermissionError was raised; 1 for any other error.
C7_ExitCodes ==
    pc = "exit" =>
        /\ code = 0 <=> (hist.ran /\ err = "" /\ status # "")
        /\ code = 2 <=> fs.patchFile = "missing"
        /\ code = 2 => (~hist.ran /\ ~hist.opened /\ ~hist.wrote)
        /\ code = 3 <=> err = "PermissionError"
        /\ code = 1 <=> (hist.ran /\ err \notin {"", "PermissionError"})
        /\ code \in {0, 1, 2, 3}

\* C7 witness: the write back was refused after the loop had succeeded
C7_Witness ==
    /\ pc = "exit" /\ code = 3 /\ hist.opened /\ i = Len(items) /\ fs.locked

rootItems == patch.root_contains.items
AllUnder(d) == \A j \in 1..Len(rootItems) : <<d, rootItems[j]>> \in fs.markers
pastRootCheck == pc \in {"file", "open", "loop", "report"} \/ (pc = "exit" /\ fs.patchFile = "ok")

\* C8: with a non-empty marker list the run keeps the given root if every marker
\* is under it; otherwise adopts the parent if the root has one and every marker
\* is under the parent, and looks for the target file there; and fails with the
\* root sanity-check error, the target file unopened, if the markers are under
\* neither the root nor any of its ancestors.
C8_RootFallback ==
    (patch.root_contains.isList /\ Len(rootItems) > 0 /\ pastRootCheck) =>
        /\ AllUnder(fs.argRoot) => (game_root = fs.argRoot /\ err # "RootSanity")
        /\ (/\ ~AllUnder(fs.argRoot)
            /\ Parent(fs.argRoot) # fs.argRoot
            /\ AllUnder(Parent(fs.argRoot))) =>
              /\ game_root = Parent(fs.argRoot) /\ err # "RootSanity"
              /\ hist.opened => fs.targetDir = Parent(fs.argRoot)
              /\ (pc = "exit" /\ fs.targetDir # Parent(fs.argRoot))
                    => err = "FileNotFoundError"
        /\ (/\ ~AllUnder(fs.argRoot)
            /\ \A a \in Ancestors(fs.argRoot) : ~AllUnder(a)) =>
              (pc = "exit" /\ err = "RootSanity" /\ code = 1 /\ ~hist.opened)

\* C8 witness: a run given a subfolder adopted its parent and patched the file there
C8_Witness ==
    /\ pc = "exit" /\ code = 0 /\ fs.argRoot = "/g/sub" /\ game_root = "/g"
    /\ <<"/g/sub", "Foo.exe">> \notin fs.markers /\ rootItems = <<"Foo.exe">>

\* the loop over the toggle entries was entered and the run has ended
loopEnded ==
    /\ pc = "exit" /\ hist.opened
    /\ err \notin {"InputManagerNotFound", "CannotReadTree", "AxesFormat"}

loopSucceeded == i = Len(items)

Perms(n) == {f \in [1..n -> 1..n] : \A a, b \in 1..n : f[a] = f[b] => a = b}
Permuted(sq, f) == [j \in 1..Len(sq) |-> sq[f[j]]]

\* the run's loop result is the result of the loop over every other order
SameInEveryOrder ==
    \A f \in Perms(Len(items)) :
        LET r == RunLoop(hist.disk0.axes, Permuted(items, f))
        IN  /\ (r.err = "") <=> loopSucceeded
            /\ loopSucceeded => (r.seen = mode_seen /\ r.axes = axes)

Spec == Init /\ [][Next]_vars

====
